---- MODULE Spec2Model ----
(***************************************************************************)
(* A model of readFile.c: readFile, readLines and freeLines, with the C    *)
(* library calls they make (fopen, fseek, ftell, malloc, fread, realloc,   *)
(* fclose, free) as environment steps whose outcome is chosen              *)
(* nondeterministically.                                                   *)
(*                                                                         *)
(* Pointers.  A heap block is named by its index in `heap` (0 is NULL).    *)
(* A pointer into the content buffer is a record [blk, idx] with idx the   *)
(* 1-based position of the byte it points at, so buf + k is idx = k + 1.   *)
(*                                                                         *)
(* Library behaviour assumed (POSIX): a failing fopen, fseek, malloc,      *)
(* realloc or fread sets errno; a succeeding call leaves errno alone;      *)
(* ftell succeeds after a successful fseek; fread returns the whole file   *)
(* unless it reports an error; fclose on the read-only stream succeeds.    *)
(* malloc(0) is implementation-defined in C: it returns a unique pointer   *)
(* or a null pointer, and both outcomes are kept.  A store past the end of *)
(* a heap block is undefined: the run either goes on (the store landed in  *)
(* allocator slack) or the process is stopped.                             *)
(***************************************************************************)
EXTENDS Integers, Sequences, FiniteSets, TLC

\* ---------------------------------------------------------------- bounds
\* longest file, in bytes
MaxLen == 3
\* largest non-zero maxSize argument
MaxLimit == 20

\* ------------------------------------------------------ program constants
\* '\0'
NUL == 0
\* '\r'
CR == 13
\* '\n'
LF == 10
\* #define TRUE 1
CTrue == 1
\* sizeof(*lines), the size of a char * (LP64)
PtrSize == 8
\* the content of a byte malloc returned and nobody wrote yet
Uninit == 0 - 1

\* the bytes a file is made of: NUL, LF, CR and one ordinary byte ('A')
Bytes == {NUL, LF, CR, 65}
Files == UNION {[1..m -> Bytes] : m \in 0..MaxLen}
\* int arguments used as flags: zero and a non-zero value
Flags == {0, 1}
MaxSizes == 0..MaxLimit
\* errno values: "none" is 0, "EINTR" is what the caller may have had before
CallerErrnos == {"none", "EINTR"}

NullPtr == [blk |-> 0, idx |-> 0]

VARIABLES
    api,          \* the function the program calls: "readFile" or "readLines"
    pc,           \* position in the code
    file,         \* the bytes of the file on disk
    fileName,     \* "path" or "NULL"
    textMode, terminate, maxSize,   \* readFile's arguments
    lengthPtr,    \* readFile's length argument is non-NULL
    lineCountPtr, \* readLines' lineCount argument is non-NULL
    errno,
    e,            \* readFile's saved errno
    eL,           \* readLines' saved errno
    t, fsize, n,  \* readFile's locals
    buf,          \* readFile's buf: a block, 0 for NULL
    data,         \* the bytes of the content buffer
    heap,         \* heap[b] = [size, frees]: the blocks malloc/realloc returned
    opens, closes,\* fopen successes and fclose calls so far
    rbuf,         \* the pointer readFile returned (readLines' buf)
    length,       \* *length, "unset" while not stored
    lnCnt, linesSize, lines,   \* readLines' locals
    tbl,          \* the stores made through ln, in order: tbl[i] went to lines[i-1]
    retLines,     \* the pointer readLines returned
    lineCount,    \* *lineCount, "unset" while not stored
    fault         \* history: the failure that happened, "none" if none

vars == <<api, pc, file, fileName, textMode, terminate, maxSize, lengthPtr,
          lineCountPtr, errno, e, eL, t, fsize, n, buf, data, heap, opens,
          closes, rbuf, length, lnCnt, linesSize, lines, tbl, retLines,
          lineCount, fault>>

\* ----------------------------------------------------------------- heap
\* malloc(size) succeeding: a new block
Malloc(h, size) == Append(h, [size |-> size, frees |-> 0])

\* free(b); free(NULL) does nothing
Free(h, b) == IF b = 0 THEN h ELSE [h EXCEPT ![b].frees = @ + 1]

\* free(p) for a pointer into the content buffer
FreePtr(h, p) == Free(h, p.blk)

Live(h) == {b \in 1..Len(h) : h[b].frees = 0}

\* ------------------------------------------------------------- Strchr
\* *(s + i - 1); a read past the block does not happen in any run (every
\* call is on a terminated buffer) and is treated as reading the terminator
Byte(s, i) == IF i \in 1..Len(s) THEN s[i] ELSE NUL

RECURSIVE Strchr(_, _, _)
\* Strchr(s + i - 1, c): the position of the first c at or after i, 0 (NULL)
\* when a NUL byte comes first.  Three bytes per iteration, as unrolled.
Strchr(s, i, c) ==
    IF Byte(s, i) = c THEN i
    ELSE IF Byte(s, i) = NUL THEN 0
    ELSE IF Byte(s, i + 1) = c THEN i + 1
    ELSE IF Byte(s, i + 1) = NUL THEN 0
    ELSE IF Byte(s, i + 2) = c THEN i + 2
    ELSE IF Byte(s, i + 2) = NUL THEN 0
    ELSE Strchr(s, i + 3, c)

\* --------------------------------------------------- readFile, text mode
RECURSIVE Compact(_, _, _, _)
\* for (; s < end; ++s) if (*s != '\r') *d++ = *s;   last is end - 1
\* the result is <<the buffer, d>>
Compact(b, s, d, last) ==
    IF s > last THEN <<b, d>>
    ELSE IF b[s] # CR THEN Compact([b EXCEPT ![d] = b[s]], s + 1, d + 1, last)
    ELSE Compact(b, s + 1, d, last)

\* if (terminate) buf[n] = '\0';
Terminate(b, len, term) == IF term # 0 THEN [b EXCEPT ![len + 1] = NUL] ELSE b

\* lines 120-133: <<the buffer, n>> after termination and CR removal
PostRead(b, len, text, term) ==
    LET b1 == Terminate(b, len, term)
        s  == IF text # 0 THEN Strchr(b1, 1, CR) ELSE 0
    IN  IF s = 0 THEN <<b1, len>>
        ELSE LET r == Compact(b1, s, s, len)
             IN  <<Terminate(r[1], r[2] - 1, term), r[2] - 1>>

\* the size check with the terminator allowance forgotten
SizeOK_NoAllowance(fs, tt, max) == max = 0 \/ fs <= max

\* line 114: the size check
SizeOK(fs, tt, max) == max = 0 \/ fs + tt <= max

\* the error clean-up with free(buf) forgotten
ExitHeap_Leak(err, h, b) == h

\* lines 150-153: the heap after readFile's error clean-up
ExitHeap(err, h, b) == IF err # "none" THEN Free(h, b) ELSE h

\* --------------------------------------------------------------- readLines
RECURSIVE CountLF(_, _)
\* for (p = buf; (p = Strchr(p, '\n')); ++p) ++lnCnt;
CountLF(b, p) ==
    LET q == Strchr(b, p, LF)
    IN  IF q = 0 THEN 0 ELSE 1 + CountLF(b, q + 1)

\* lines 204-206
CountLines(b, len) ==
    (IF len # 0 /\ b[len] # LF THEN 1 ELSE 0) + CountLF(b, 1)

\* line 208: the combined size check
LinesSizeOK(ls, len, max) == max = 0 \/ ls + len + 1 <= max

\* the error clean-up with free(buf) forgotten
LinesExitHeap_Leak(err, h, b) == h

\* lines 230-233: the heap after readLines' error clean-up
LinesExitHeap(err, h, b) == IF err # "none" THEN Free(h, b) ELSE h

\* the empty content kept allocated, with nothing left pointing at it
EmptyContent_Leak(h, b) == h

\* line 220: the content buffer of an empty file is released at once
EmptyContent(h, b) == Free(h, b)

RECURSIVE Split(_, _, _, _)
\* lines 214-218: <<the buffer, the stores made through ln>>
Split(b, p, blk, stores) ==
    LET q == Strchr(b, p, LF)
    IN  IF q = 0 THEN <<b, stores>>
        ELSE LET b1 == [b EXCEPT ![q] = NUL]
             IN  Split(b1, q + 1, blk,
                       IF Byte(b1, q + 1) # NUL
                       THEN Append(stores, [blk |-> blk, idx |-> q + 1])
                       ELSE stores)

\* lines 211-223 for a non-empty content: first line, the loop, the sentinel
FillLines(b, blk) ==
    LET r == Split(b, 1, blk, <<[blk |-> blk, idx |-> 1]>>)
    IN  <<r[1], Append(r[2], NullPtr)>>

\* ------------------------------------------------------------------ Init
Init ==
    /\ api \in {"readFile", "readLines"}
    /\ fileName \in {"path", "NULL"}
    /\ file \in Files
    /\ maxSize \in MaxSizes
    \* with a NULL fileName no file is looked at: one representative
    /\ fileName = "NULL" => (file = <<>> /\ maxSize = 0)
    \* readFile alone allocates at most MaxLen + 1 chars: every larger
    \* maxSize acts as MaxLen + 2 does (the table of readLines needs more)
    /\ api = "readFile" => maxSize <= MaxLen + 2
    /\ errno \in CallerErrnos
    /\ IF api = "readFile"
       THEN /\ textMode \in Flags
            /\ terminate \in Flags
            /\ lengthPtr \in BOOLEAN
            /\ lineCountPtr = FALSE
            /\ pc = "rf_entry"
       ELSE /\ textMode = 0
            /\ terminate = 0
            /\ lengthPtr = FALSE
            /\ lineCountPtr \in BOOLEAN
            /\ pc = "rl_entry"
    /\ e = "none" /\ eL = "none"
    /\ t = 0 /\ fsize = 0 /\ n = 0
    /\ buf = 0 /\ data = <<>> /\ heap = <<>>
    /\ opens = 0 /\ closes = 0
    /\ rbuf = 0 /\ length = "unset"
    /\ lnCnt = 0 /\ linesSize = 0 /\ lines = 0 /\ tbl = <<>>
    /\ retLines = 0 /\ lineCount = "unset"
    /\ fault = "none"

\* --------------------------------------------------------------- readFile
\* lines 95-106: locals, the fileName check, terminate forced by textMode
RF_Entry ==
    /\ pc = "rf_entry"
    /\ e' = errno
    /\ n' = 0 /\ buf' = 0
    /\ IF fileName = "NULL"
       THEN /\ errno' = "EINVAL"
            /\ fault' = "null_name"
            /\ pc' = "rf_exit"
            /\ UNCHANGED <<terminate, t>>
       ELSE /\ terminate' = (IF textMode # 0 THEN CTrue ELSE terminate)
            /\ t' = (IF terminate' # 0 THEN 1 ELSE 0)
            /\ errno' = "none"
            /\ pc' = "rf_open"
            /\ UNCHANGED fault
    /\ UNCHANGED <<api, file, fileName, textMode, maxSize, lengthPtr,
                   lineCountPtr, eL, fsize, data, heap, opens, closes, rbuf,
                   length, lnCnt, linesSize, lines, tbl, retLines, lineCount>>

\* line 110: fopen(fileName, "rb")
RF_Open ==
    /\ pc = "rf_open"
    /\ \E ok \in BOOLEAN :
         IF ok
         THEN /\ opens' = opens + 1
              /\ pc' = "rf_seek"
              /\ UNCHANGED <<errno, fault>>
         ELSE /\ errno' = "ENOENT"
              /\ fault' = "open"
              /\ pc' = "rf_exit"
              /\ UNCHANGED opens
    /\ UNCHANGED <<api, file, fileName, textMode, terminate, maxSize,
                   lengthPtr, lineCountPtr, e, eL, t, fsize, n, buf, data,
                   heap, closes, rbuf, length, lnCnt, linesSize, lines, tbl,
                   retLines, lineCount>>

\* fseek with the failure leaving the function before fclose
RF_Seek_NoClose ==
    /\ pc = "rf_seek"
    /\ \E ok \in BOOLEAN :
         IF ok
         THEN /\ pc' = "rf_size"
              /\ UNCHANGED <<errno, fault>>
         ELSE /\ errno' = "ESPIPE"
              /\ fault' = "seek"
              /\ pc' = "rf_exit"
    /\ UNCHANGED <<api, file, fileName, textMode, terminate, maxSize,
                   lengthPtr, lineCountPtr, e, eL, t, fsize, n, buf, data,
                   heap, opens, closes, rbuf, length, lnCnt, linesSize, lines,
                   tbl, retLines, lineCount>>

\* line 112: fseek(in, 0, SEEK_END)
RF_Seek ==
    /\ pc = "rf_seek"
    /\ \E ok \in BOOLEAN :
         IF ok
         THEN /\ pc' = "rf_size"
              /\ UNCHANGED <<errno, fault>>
         ELSE /\ errno' = "ESPIPE"
              /\ fault' = "seek"
              /\ pc' = "rf_close"
    /\ UNCHANGED <<api, file, fileName, textMode, terminate, maxSize,
                   lengthPtr, lineCountPtr, e, eL, t, fsize, n, buf, data,
                   heap, opens, closes, rbuf, length, lnCnt, linesSize, lines,
                   tbl, retLines, lineCount>>

\* lines 113-114, 143-144: ftell and the maxSize check
RF_Size ==
    /\ pc = "rf_size"
    /\ fsize' = Len(file)
    /\ IF SizeOK(fsize', t, maxSize)
       THEN /\ pc' = "rf_malloc"
            /\ UNCHANGED <<errno, fault>>
       ELSE /\ errno' = "EFBIG"
            /\ fault' = "size"
            /\ pc' = "rf_close"
    /\ UNCHANGED <<api, file, fileName, textMode, terminate, maxSize,
                   lengthPtr, lineCountPtr, e, eL, t, n, buf, data, heap,
                   opens, closes, rbuf, length, lnCnt, linesSize, lines, tbl,
                   retLines, lineCount>>

\* lines 115-116: buf = malloc(fsize + t)
RF_Malloc ==
    /\ pc = "rf_malloc"
    /\ \/ \* a block
          /\ heap' = Malloc(heap, fsize + t)
          /\ buf' = Len(heap')
          /\ data' = [i \in 1..(fsize + t) |-> Uninit]
          /\ pc' = "rf_read"
          /\ UNCHANGED <<errno, fault>>
       \/ \* out of memory
          /\ errno' = "ENOMEM"
          /\ fault' = "alloc"
          /\ pc' = "rf_close"
          /\ UNCHANGED <<buf, data, heap>>
       \/ \* malloc(0) returning a null pointer, which is no error
          /\ fsize + t = 0
          /\ pc' = "rf_close"
          /\ UNCHANGED <<buf, data, heap, errno, fault>>
    /\ UNCHANGED <<api, file, fileName, textMode, terminate, maxSize,
                   lengthPtr, lineCountPtr, e, eL, t, fsize, n, opens, closes,
                   rbuf, length, lnCnt, linesSize, lines, tbl, retLines,
                   lineCount>>

\* lines 117-119: rewind, fread, ferror
RF_Read ==
    /\ pc = "rf_read"
    /\ \/ /\ n' = fsize
          /\ data' = [i \in 1..Len(data) |-> IF i <= fsize THEN file[i] ELSE data[i]]
          /\ pc' = "rf_post"
          /\ UNCHANGED <<errno, fault>>
       \/ \E k \in 0..fsize :
          /\ n' = k
          /\ data' = [i \in 1..Len(data) |-> IF i <= k THEN file[i] ELSE data[i]]
          /\ errno' = "EIO"
          /\ fault' = "read"
          /\ pc' = "rf_close"
    /\ UNCHANGED <<api, file, fileName, textMode, terminate, maxSize,
                   lengthPtr, lineCountPtr, e, eL, t, fsize, buf, heap, opens,
                   closes, rbuf, length, lnCnt, linesSize, lines, tbl,
                   retLines, lineCount>>

\* lines 120-133: the terminator and the removal of carriage returns
RF_Post ==
    /\ pc = "rf_post"
    /\ LET r == PostRead(data, n, textMode, terminate)
       IN  data' = r[1] /\ n' = r[2]
    /\ pc' = "rf_shrink"
    /\ UNCHANGED <<api, file, fileName, textMode, terminate, maxSize,
                   lengthPtr, lineCountPtr, errno, e, eL, t, fsize, buf, heap,
                   opens, closes, rbuf, length, lnCnt, linesSize, lines, tbl,
                   retLines, lineCount, fault>>

\* lines 134-140: b = realloc(buf, n + t)
RF_Shrink ==
    /\ pc = "rf_shrink"
    /\ IF n < fsize
       THEN \/ \* shrunk in place
               /\ heap' = [heap EXCEPT ![buf].size = n + t]
               /\ data' = SubSeq(data, 1, n + t)
               /\ UNCHANGED <<buf, errno>>
            \/ \* moved: a new block, the old one released
               /\ heap' = Malloc(Free(heap, buf), n + t)
               /\ buf' = Len(heap')
               /\ data' = SubSeq(data, 1, n + t)
               /\ UNCHANGED errno
            \/ \* failed: realloc set errno, the code clears it
               /\ errno' = "none"
               /\ UNCHANGED <<buf, data, heap>>
       ELSE UNCHANGED <<buf, data, heap, errno>>
    /\ pc' = "rf_close"
    /\ UNCHANGED <<api, file, fileName, textMode, terminate, maxSize,
                   lengthPtr, lineCountPtr, e, eL, t, fsize, n, opens, closes,
                   rbuf, length, lnCnt, linesSize, lines, tbl, retLines,
                   lineCount, fault>>

\* line 146: fclose(in)
RF_Close ==
    /\ pc = "rf_close"
    /\ closes' = closes + 1
    /\ pc' = "rf_exit"
    /\ UNCHANGED <<api, file, fileName, textMode, terminate, maxSize,
                   lengthPtr, lineCountPtr, errno, e, eL, t, fsize, n, buf,
                   data, heap, opens, rbuf, length, lnCnt, linesSize, lines,
                   tbl, retLines, lineCount, fault>>

\* lines 150-160: the error clean-up, *length and the return
RF_Exit ==
    /\ pc = "rf_exit"
    /\ IF errno # "none"
       THEN /\ n' = 0
            /\ buf' = 0
            /\ UNCHANGED errno
       ELSE /\ errno' = e
            /\ UNCHANGED <<n, buf>>
    /\ heap' = ExitHeap(errno, heap, buf)
    /\ length' = (IF lengthPtr THEN n' ELSE length)
    /\ rbuf' = buf'
    /\ pc' = (IF api = "readFile" THEN "rf_returned" ELSE "rl_count")
    /\ UNCHANGED <<api, file, fileName, textMode, terminate, maxSize,
                   lengthPtr, lineCountPtr, e, eL, t, fsize, data, opens,
                   closes, lnCnt, linesSize, lines, tbl, retLines, lineCount,
                   fault>>

\* the caller of readFile frees the buffer it got (free(NULL) does nothing)
CallerFree ==
    /\ pc = "rf_returned"
    /\ heap' = Free(heap, rbuf)
    /\ pc' = "done"
    /\ UNCHANGED <<api, file, fileName, textMode, terminate, maxSize,
                   lengthPtr, lineCountPtr, errno, e, eL, t, fsize, n, buf,
                   data, opens, closes, rbuf, length, lnCnt, linesSize, lines,
                   tbl, retLines, lineCount, fault>>

\* -------------------------------------------------------------- readLines
\* lines 196-202: locals and the call readFile(fileName, 1, 1, maxSize, &length)
RL_Entry ==
    /\ pc = "rl_entry"
    /\ lnCnt' = 0 /\ lines' = 0
    /\ eL' = errno
    /\ errno' = "none"
    /\ textMode' = 1 /\ terminate' = 1 /\ lengthPtr' = TRUE
    /\ pc' = "rf_entry"
    /\ UNCHANGED <<api, file, fileName, maxSize, lineCountPtr, e, t, fsize, n,
                   buf, data, heap, opens, closes, rbuf, length, linesSize,
                   tbl, retLines, lineCount, fault>>

\* lines 203-208, 225-227: the counting pass and the combined size check
RL_Count ==
    /\ pc = "rl_count"
    /\ IF rbuf # 0
       THEN /\ lnCnt' = CountLines(data, length)
            /\ linesSize' = (lnCnt' + 1) * PtrSize
            /\ IF LinesSizeOK(linesSize', length, maxSize)
               THEN /\ pc' = "rl_malloc"
                    /\ UNCHANGED <<errno, fault>>
               ELSE /\ errno' = "EFBIG"
                    /\ fault' = "rl_size"
                    /\ pc' = "rl_exit"
       ELSE /\ pc' = "rl_exit"
            /\ UNCHANGED <<lnCnt, linesSize, errno, fault>>
    /\ UNCHANGED <<api, file, fileName, textMode, terminate, maxSize,
                   lengthPtr, lineCountPtr, e, eL, t, fsize, n, buf, data,
                   heap, opens, closes, rbuf, length, lines, tbl, retLines,
                   lineCount>>

\* lines 209-210: lines = malloc(linesSize)
RL_Malloc ==
    /\ pc = "rl_malloc"
    /\ \/ /\ heap' = Malloc(heap, linesSize)
          /\ lines' = Len(heap')
          /\ pc' = "rl_fill"
          /\ UNCHANGED <<errno, fault>>
       \/ /\ errno' = "ENOMEM"
          /\ fault' = "rl_alloc"
          /\ pc' = "rl_exit"
          /\ UNCHANGED <<heap, lines>>
    /\ UNCHANGED <<api, file, fileName, textMode, terminate, maxSize,
                   lengthPtr, lineCountPtr, e, eL, t, fsize, n, buf, data,
                   opens, closes, rbuf, length, lnCnt, linesSize, tbl,
                   retLines, lineCount>>

\* lines 211-223: the line pointers and the NULL sentinel
RL_Fill ==
    /\ pc = "rl_fill"
    /\ IF length # 0
       THEN /\ LET r == FillLines(data, rbuf)
               IN  data' = r[1] /\ tbl' = r[2]
            /\ UNCHANGED <<heap, rbuf>>
       ELSE /\ heap' = EmptyContent(heap, rbuf)
            /\ rbuf' = 0
            /\ tbl' = <<NullPtr>>
            /\ UNCHANGED data
    /\ \/ pc' = "rl_exit"
       \/ \* a store past the end of the table: the process may be stopped
          /\ Len(tbl') * PtrSize > linesSize
          /\ pc' = "crashed"
    /\ UNCHANGED <<api, file, fileName, textMode, terminate, maxSize,
                   lengthPtr, lineCountPtr, errno, e, eL, t, fsize, n, buf,
                   opens, closes, length, lnCnt, linesSize, lines, retLines,
                   lineCount, fault>>

\* lines 230-240: the error clean-up, *lineCount and the return
RL_Exit ==
    /\ pc = "rl_exit"
    /\ IF errno # "none"
       THEN /\ lnCnt' = 0
            /\ rbuf' = 0
            /\ UNCHANGED errno
       ELSE /\ errno' = eL
            /\ UNCHANGED <<lnCnt, rbuf>>
    /\ heap' = LinesExitHeap(errno, heap, rbuf)
    /\ lineCount' = (IF lineCountPtr THEN lnCnt' ELSE lineCount)
    /\ retLines' = lines
    /\ pc' = "rl_returned"
    /\ UNCHANGED <<api, file, fileName, textMode, terminate, maxSize,
                   lengthPtr, lineCountPtr, e, eL, t, fsize, n, buf, data,
                   opens, closes, length, linesSize, lines, tbl, fault>>

\* lines 251-257: freeLines(lines) called by the caller of readLines
FreeLines ==
    /\ pc = "rl_returned"
    /\ heap' = (IF retLines # 0
                THEN Free(FreePtr(heap, tbl[1]), retLines)
                ELSE Free(heap, retLines))
    /\ pc' = "done"
    /\ UNCHANGED <<api, file, fileName, textMode, terminate, maxSize,
                   lengthPtr, lineCountPtr, errno, e, eL, t, fsize, n, buf,
                   data, opens, closes, rbuf, length, lnCnt, linesSize, lines,
                   tbl, retLines, lineCount, fault>>

Next ==
    \/ RF_Entry \/ RF_Open \/ RF_Seek \/ RF_Size \/ RF_Malloc \/ RF_Read
    \/ RF_Post \/ RF_Shrink \/ RF_Close \/ RF_Exit \/ CallerFree
    \/ RL_Entry \/ RL_Count \/ RL_Malloc \/ RL_Fill \/ RL_Exit \/ FreeLines

Spec == Init /\ [][Next]_vars

\* ================================================================ claims
\* reference definitions the claims are stated with

\* the number of carriage-return bytes of s
NumCR(s) == Cardinality({i \in 1..Len(s) : s[i] = CR})

\* s with every carriage return removed, the other bytes in order
WithoutCR(s) == SelectSeq(s, LAMBDA b : b # CR)

RECURSIVE Segments(_)
\* the line-feed-delimited segments of s; no segment after a final line feed
Segments(s) ==
    IF s = <<>> THEN <<>>
    ELSE LET lfs == {i \in 1..Len(s) : s[i] = LF}
         IN  IF lfs = {} THEN <<s>>
             ELSE LET k == CHOOSE i \in lfs : \A j \in lfs : i <= j
                  IN  <<SubSeq(s, 1, k - 1)>> \o Segments(SubSeq(s, k + 1, Len(s)))

RECURSIVE CStr(_, _)
\* the C string that starts at position i of buffer b
CStr(b, i) == IF Byte(b, i) = NUL THEN <<>> ELSE <<b[i]>> \o CStr(b, i + 1)

\* the table entries before the NULL sentinel
Entries ==
    LET k == CHOOSE i \in 1..Len(tbl) :
                 tbl[i] = NullPtr /\ \A j \in 1..(i - 1) : tbl[j] # NullPtr
    IN  SubSeq(tbl, 1, k - 1)

\* the terminator allowance of a readFile call
Allowance == IF terminate # 0 \/ textMode # 0 THEN 1 ELSE 0

\* readFile has returned to its caller (the program, or readLines)
ReadFileReturned == pc \in {"rf_returned", "rl_count"}

\* the failures of readFile
ReadFileFaults == {"null_name", "open", "seek", "size", "alloc", "read"}

Freed(h) == \A b \in 1..Len(h) : h[b].frees = 1

\* C1: a successful readFile in text mode reports *length = fileSize - N for
\* a file with N carriage returns, and returns the file's bytes with every
\* carriage return removed and the others in order, for every byte sequence
\* (NUL bytes included).
C1_TextModeRemovesEveryCR ==
    (pc = "rf_returned" /\ textMode # 0 /\ rbuf # 0) =>
        /\ n = Len(file) - NumCR(file)
        /\ lengthPtr => length = Len(file) - NumCR(file)
        /\ SubSeq(data, 1, n) = WithoutCR(file)

\* C2: a successful readLines returns, before the NULL sentinel, exactly the
\* line-feed-delimited segments of the carriage-return-stripped content, in
\* order, and *lineCount is the number of those entries.
C2_LinesAreSegments ==
    (pc = "rl_returned" /\ retLines # 0) =>
        LET want == Segments(WithoutCR(file))
        IN  /\ Len(Entries) = Len(want)
            /\ lineCountPtr => lineCount = Len(want)
            /\ \A i \in 1..Len(Entries) :
                 i <= Len(want) => CStr(data, Entries[i].idx) = want[i]

\* C3: after readLines and one freeLines on its result every block readLines
\* allocated (the content buffer, moved or not, and the table) has been freed
\* exactly once; no block is ever freed twice; after a zero-line result the
\* content buffer is already freed and the first entry is NULL; freeLines(NULL)
\* frees nothing.
C3_EachBlockFreedOnce ==
    api = "readLines" =>
        /\ \A b \in 1..Len(heap) : heap[b].frees <= 1
        /\ pc = "done" => Freed(heap)
        /\ (pc = "rl_returned" /\ retLines = 0) => Freed(heap)
        /\ (pc = "rl_returned" /\ retLines # 0 /\ length = 0) =>
               (tbl[1] = NullPtr /\ Live(heap) = {retLines})

\* a run of readLines and freeLines whose content buffer was moved by realloc
C3_Witness ==
    /\ api = "readLines" /\ pc = "done" /\ retLines # 0
    /\ Len(heap) = 3 /\ Len(tbl) = 3

\* C4: on every error path readFile returns NULL, stores 0 in *length when
\* length is non-NULL, and leaves no block of its own allocated; it returns a
\* non-NULL buffer only when no error occurred.
C4_ErrorPathsClean ==
    ReadFileReturned =>
        /\ fault \in ReadFileFaults =>
              /\ rbuf = 0
              /\ lengthPtr => length = 0
              /\ Live(heap) = {}
        /\ rbuf # 0 => (fault = "none" /\ Live(heap) = {rbuf})

\* readFile returned after a read error, the buffer it had allocated released
C4_Witness ==
    /\ pc = "rf_returned" /\ fault = "read" /\ lengthPtr
    /\ Len(heap) = 1 /\ Len(file) > 0

\* C5: with maxSize non-zero and file size plus terminator allowance above
\* it, a readFile that got to the size check fails with EFBIG, returns NULL
\* and has allocated nothing; with maxSize zero no size limit is applied.
C5_SizeLimit ==
    /\ (ReadFileReturned /\ fault \notin {"null_name", "open", "seek"}
        /\ maxSize # 0 /\ Len(file) + Allowance > maxSize) =>
           (errno = "EFBIG" /\ fault = "size" /\ rbuf = 0 /\ heap = <<>>)
    /\ maxSize = 0 => (errno # "EFBIG" /\ fault # "size")

\* the file is exactly maxSize bytes long and only the terminator exceeds it
C5_Witness ==
    /\ pc = "rf_returned" /\ fault = "size"
    /\ textMode = 0 /\ terminate # 0 /\ Len(file) = maxSize

\* C6: when readLines fails after readFile gave it the content buffer (the
\* combined size bound exceeded, or no memory for the table) it returns
\* NULL, reports EFBIG or ENOMEM, stores 0 in *lineCount and has freed the
\* content buffer.
C6_LinesFailureClean ==
    (pc = "rl_returned" /\ fault \in {"rl_size", "rl_alloc"}) =>
        /\ retLines = 0
        /\ errno = (IF fault = "rl_size" THEN "EFBIG" ELSE "ENOMEM")
        /\ lineCountPtr => lineCount = 0
        /\ Len(heap) >= 1 /\ Freed(heap)

\* the content fitted maxSize but content and table together did not
C6_Witness ==
    /\ pc = "rl_returned" /\ fault = "rl_size" /\ lineCountPtr
    /\ Len(file) > 0 /\ Len(heap) = 2

\* C7: with maxSize non-zero, the content buffer a successful readLines keeps
\* plus its line table never take more than maxSize chars, also when the
\* shrinking realloc failed and the larger buffer was kept.
C7_TotalWithinMaxSize ==
    (pc = "rl_returned" /\ retLines # 0 /\ maxSize # 0) =>
        (IF rbuf # 0 THEN heap[rbuf].size ELSE 0) + heap[retLines].size <= maxSize

\* C8: for an empty file readFile, whatever textMode and terminate are,
\* succeeds with a non-NULL buffer that is still to be freed and *length = 0;
\* readLines returns a table holding only the NULL sentinel, *lineCount = 0.
\* (Runs in which fopen, fseek, malloc or fread reported an error are left
\* out: a reported error leaves errno set.)
C8_EmptyFileGivesBuffer ==
    /\ (pc = "rf_returned" /\ fileName # "NULL" /\ Len(file) = 0 /\ errno = e) =>
           /\ rbuf # 0 /\ heap[rbuf].frees = 0
           /\ lengthPtr => length = 0
    /\ (pc = "rl_returned" /\ fileName # "NULL" /\ Len(file) = 0 /\ errno = eL) =>
           /\ retLines # 0 /\ tbl = <<NullPtr>>
           /\ lineCountPtr => lineCount = 0

\* C9: a call opens at most one handle, closes it at most once, and no handle
\* is open once readFile is at its exit or has returned, whatever path it took.
C9_HandleClosedOnce ==
    /\ opens <= 1
    /\ closes <= opens
    /\ pc \in {"rf_seek", "rf_size", "rf_malloc", "rf_read", "rf_post",
               "rf_shrink", "rf_close"} => (opens = 1 /\ closes = 0)
    /\ pc \in {"rf_exit", "rf_returned", "rl_count", "rl_malloc", "rl_fill",
               "rl_exit", "rl_returned", "crashed", "done"} => closes = opens

\* readFile returned after a failed seek on the handle it had opened
C9_Witness ==
    /\ pc = "rf_returned" /\ fault = "seek" /\ opens = 1 /\ closes = 1

\* C10: every store readLines makes through ln, the line pointers and the
\* sentinel, lands inside the (lnCnt + 1)-entry table it allocated.
C10_TableStoresInBounds ==
    lines # 0 => Len(tbl) * PtrSize <= heap[lines].size

====
